---- MODULE Spec2Model ----
(***************************************************************************)
(* Model of the multi-account scraping coordinator of                      *)
(* src/src/scraper/linkedin_scraper.py (class MultiAccountScraper) and of  *)
(* the parts of LinkedInScraper it drives.                                 *)
(*                                                                         *)
(* Accounts are numbered 1..Len in configuration order (self.accounts).    *)
(* Time is a clock in ticks of one minute (datetime.utcnow()); every await *)
(* of the coroutine is a point where the clock may advance.                *)
(* Drivers (LinkedInScraper objects) are numbered in creation order.       *)
(*                                                                         *)
(* Two further specifications share the module: ExtractSpec, the           *)
(* extraction of a profile record from a page (_extract_profile_data), and *)
(* DbSpec, the repositories of src/src/database/repository.py and the      *)
(* result loop of src/scripts/run_scraper.py. FairSpec is Spec with the    *)
(* fairness of the coroutine's steps.                                      *)
(***************************************************************************)
EXTENDS Integers, Sequences, FiniteSets, TLC

\* ---- bounds of the model ----
MaxAccounts == 2      \* accounts configured
MaxCap      == 2      \* max_profiles_per_account ranges over 0..MaxCap
MaxCooldown == 2      \* cooldown_minutes ranges over 0..MaxCooldown
MaxTargets  == 3      \* length of one profile_urls list
MaxCalls    == 2      \* scrape_profiles calls on one coordinator
MaxLater    == 1      \* length of the profile_urls list of a later call
MaxStep     == 1      \* ticks the clock may advance during one await
MaxItems    == 3      \* experience entries on one profile page
MaxAlumni   == 2      \* rows of table alumni in a starting store
MaxIds      == 2      \* distinct linkedin ids
MaxCompanies == 2     \* distinct company names in the database
MaxDays     == 2      \* days between a scrape and now, and days_since_last_scrape
MaxJobs     == 2      \* length of the list given to bulk_create
MaxResults  == 2      \* length of the list run_scraper processes
MaxOps      == 2      \* upsert_from_linkedin calls on one store

\* ---- encodings of Python's None ----
None  == 0            \* no account / no driver (accounts and drivers count from 1)
Never == -1           \* last_used = None
NoCookies == -1       \* no cookie file for the account

VARIABLES
    accounts,                 \* number of configured accounts (self.accounts)
    max_profiles_per_account, \* self.max_profiles_per_account
    cooldown_minutes,         \* self.cooldown_minutes
    account_usage,            \* self.account_usage: account -> usage record
    current_scraper,          \* self.current_scraper: driver or None
    current_account,          \* self.current_account: account or None
    drivers,                  \* every LinkedInScraper created so far
    cookie_files,             \* cookies_dir: account -> stored cookie set or NoCookies
    now,                      \* datetime.utcnow()
    pc,                       \* position of the scrape_profiles coroutine
    profile_urls,             \* length of the argument list; target k is its k-th URL
    idx,                      \* position of the for loop in profile_urls
    results,                  \* the local list results
    account,                  \* the local variable account
    calls,                    \* scrape_profiles calls made so far
    events,                   \* what the current call did, in order
    auth                      \* what the latest initialize_account did

\* the profile page a driver is on and the record extracted from it
VARIABLES
    page,                     \* what the selectors of the page yield
    data                      \* the dict _extract_profile_data returns

\* the database, and one run of scripts/run_scraper.py over it
VARIABLES
    alumni,                   \* table alumni: the rows, in id order
    job_history,              \* table job_history: the rows, in id order
    scrape_logs,              \* table scrape_logs: the rows, in id order
    utcnow,                   \* the clock of the database host, in days
    last_op,                  \* the latest repository call and what it returned
    dry_run,                  \* run_scraper's argument dry_run
    scrape_results,           \* the list scrape_profiles returned to run_scraper
    processed                 \* results the loop of run_scraper has gone through

coordinator == <<accounts, max_profiles_per_account, cooldown_minutes,
                 account_usage, current_scraper, current_account, drivers,
                 cookie_files, now, pc, profile_urls, idx, results, account,
                 calls, events, auth>>

extraction == <<page, data>>

database == <<alumni, job_history, scrape_logs, utcnow, last_op, dry_run,
              scrape_results, processed>>

vars == <<coordinator, extraction, database>>

config == <<accounts, max_profiles_per_account, cooldown_minutes>>

Accounts == 1..accounts

\* ---- pages a navigation can end on, as the parts of their URL ----
FeedPage      == <<"www.linkedin.com", "feed">>
LoginPage     == <<"www.linkedin.com", "login">>
LoginRedirect == <<"www.linkedin.com", "uas", "login", "session_redirect", "feed">>

\* where page.goto ended: on a page, or raised (timeout, closed browser)
Landed(url) == [raised |-> FALSE, url |-> url]
Raised      == [raised |-> TRUE, url |-> <<>>]
NoLanding   == [raised |-> FALSE, url |-> <<>>]

\* no initialize_account yet
NoAuth == [stored |-> NoCookies, landing |-> NoLanding, replay |-> <<>>,
           outcome |-> "none", login |-> <<>>, session |-> "none"]

\* no profile page is open
NoPage ==
    /\ page = [raised |-> FALSE, exp_items |-> <<>>]
    /\ data = <<>>

\* no database is connected
NoDatabase ==
    /\ alumni = <<>>
    /\ job_history = <<>>
    /\ scrape_logs = <<>>
    /\ utcnow = 0
    /\ last_op = [op |-> "none", n |-> 0]
    /\ dry_run = FALSE
    /\ scrape_results = <<>>
    /\ processed = 0

\* no coordinator has been constructed
NoCoordinator ==
    /\ accounts = 1
    /\ max_profiles_per_account = 0
    /\ cooldown_minutes = 0
    /\ account_usage = <<>>
    /\ current_scraper = None
    /\ current_account = None
    /\ drivers = <<>>
    /\ cookie_files = <<>>
    /\ now = 0
    /\ pc = "idle"
    /\ profile_urls = 0
    /\ idx = 0
    /\ results = <<>>
    /\ account = None
    /\ calls = 0
    /\ events = <<>>
    /\ auth = NoAuth

\* ---- MultiAccountScraper.__init__ ----
InitialUsage == [profiles_scraped |-> 0, last_used |-> Never, is_available |-> TRUE]

Init ==
    /\ accounts \in 1..MaxAccounts
    /\ max_profiles_per_account \in 0..MaxCap
    /\ cooldown_minutes \in 0..MaxCooldown
    /\ account_usage = [a \in 1..accounts |-> InitialUsage]
    /\ current_scraper = None
    /\ current_account = None
    /\ drivers = <<>>
    /\ \E c \in {NoCookies, 0} : cookie_files = [a \in 1..accounts |-> c]
    /\ now = 0
    /\ pc = "idle"
    /\ profile_urls = 0
    /\ idx = 0
    /\ results = <<>>
    /\ account = None
    /\ calls = 0
    /\ events = <<>>
    /\ auth = NoAuth
    /\ NoPage
    /\ NoDatabase

\* ---- _get_available_account ----
\* variant: the elapsed time is left in seconds (the division by 60 is lost)
MinutesSinceUse_seconds(usage, t) == (t - usage.last_used) * 60

MinutesSinceUse(usage, t) == t - usage.last_used

\* variant: the cap check reads the counter before the cooldown reset
ConsiderAccount_lateReset(usage, t) ==
    IF /\ usage.last_used # Never
       /\ MinutesSinceUse(usage, t) < cooldown_minutes
       /\ usage.profiles_scraped >= max_profiles_per_account
    THEN [usage |-> usage, ret |-> FALSE]
    ELSE LET reset == IF /\ usage.last_used # Never
                         /\ MinutesSinceUse(usage, t) >= cooldown_minutes
                      THEN [usage EXCEPT !.profiles_scraped = 0]
                      ELSE usage
         IN [usage |-> reset,
             ret   |-> /\ usage.profiles_scraped < max_profiles_per_account
                       /\ usage.is_available]

\* variant: the cap check admits an account that is exactly at the cap
ConsiderAccount_atCap(usage, t) ==
    IF /\ usage.last_used # Never
       /\ MinutesSinceUse(usage, t) < cooldown_minutes
       /\ usage.profiles_scraped >= max_profiles_per_account
    THEN [usage |-> usage, ret |-> FALSE]
    ELSE LET reset == IF /\ usage.last_used # Never
                         /\ MinutesSinceUse(usage, t) >= cooldown_minutes
                      THEN [usage EXCEPT !.profiles_scraped = 0]
                      ELSE usage
         IN [usage |-> reset,
             ret   |-> /\ reset.profiles_scraped <= max_profiles_per_account
                       /\ reset.is_available]

\* variant: the is_available flag is not consulted
ConsiderAccount_anyFlag(usage, t) ==
    IF /\ usage.last_used # Never
       /\ MinutesSinceUse(usage, t) < cooldown_minutes
       /\ usage.profiles_scraped >= max_profiles_per_account
    THEN [usage |-> usage, ret |-> FALSE]
    ELSE LET reset == IF /\ usage.last_used # Never
                         /\ MinutesSinceUse(usage, t) >= cooldown_minutes
                      THEN [usage EXCEPT !.profiles_scraped = 0]
                      ELSE usage
         IN [usage |-> reset,
             ret   |-> reset.profiles_scraped < max_profiles_per_account]

\* one pass of the loop body for one account: the usage record it leaves and
\* whether the account is returned
ConsiderAccount(usage, t) ==
    IF /\ usage.last_used # Never
       /\ MinutesSinceUse(usage, t) < cooldown_minutes
       /\ usage.profiles_scraped >= max_profiles_per_account
    THEN [usage |-> usage, ret |-> FALSE]
    ELSE LET reset == IF /\ usage.last_used # Never
                         /\ MinutesSinceUse(usage, t) >= cooldown_minutes
                      THEN [usage EXCEPT !.profiles_scraped = 0]
                      ELSE usage
         IN [usage |-> reset,
             ret   |-> /\ reset.profiles_scraped < max_profiles_per_account
                       /\ reset.is_available]

RECURSIVE ScanAccounts(_, _, _)
ScanAccounts(k, au, t) ==
    IF k > accounts
    THEN [account |-> None, usage |-> au]
    ELSE LET c   == ConsiderAccount(au[k], t)
             au2 == [au EXCEPT ![k] = c.usage]
         IN IF c.ret THEN [account |-> k, usage |-> au2]
                     ELSE ScanAccounts(k + 1, au2, t)

GetAvailableAccount(au, t) == ScanAccounts(1, au, t)

\* ---- LinkedInScraper.stop, counted per driver ----
Stop(ds, d) == [ds EXCEPT ![d].stops = @ + 1]

\* one entry of events: the operation, the loop position, the account and the
\* driver it concerns, and the clock when it happened
Event(op, a, d, t) ==
    [op |-> op, target |-> idx, account |-> a, driver |-> d, at |-> t]

\* ---- scrape_profiles ----
\* the call: results = [] and the for loop is entered
Call(n, gap) ==
    /\ pc = "idle"
    /\ calls < MaxCalls
    /\ n <= IF calls = 0 THEN MaxTargets ELSE MaxLater
    /\ profile_urls' = n
    /\ now' = now + gap
    /\ idx' = 1
    /\ results' = <<>>
    /\ account' = None
    /\ calls' = calls + 1
    /\ events' = <<>>
    /\ pc' = "loop"
    /\ UNCHANGED <<config, extraction, database, auth, account_usage, current_scraper, current_account,
                   drivers, cookie_files>>

\* top of the loop: next target or loop exit, and the switch check
\* variant: the switch check counts the results of this call
AtLimit_thisCall ==
    /\ current_account # None
    /\ Len(results) >= max_profiles_per_account

\* variant: the switch happens only above the cap
AtLimit_above ==
    /\ current_account # None
    /\ account_usage[current_account].profiles_scraped > max_profiles_per_account

AtLimit ==
    /\ current_account # None
    /\ account_usage[current_account].profiles_scraped >= max_profiles_per_account

\* variant: the switch drops the session without stopping its driver
NextTarget_noTeardown ==
    /\ pc = "loop"
    /\ IF idx > profile_urls
       THEN /\ pc' = "cleanup"
            /\ UNCHANGED <<current_scraper, current_account>>
       ELSE IF AtLimit
       THEN /\ current_scraper' = None
            /\ current_account' = None
            /\ pc' = "select"
       ELSE /\ pc' = IF current_account = None THEN "select" ELSE "scrape"
            /\ UNCHANGED <<current_scraper, current_account>>
    /\ UNCHANGED <<config, extraction, database, auth, account_usage, cookie_files, now, profile_urls,
                   idx, results, account, calls, drivers, events>>

NextTarget ==
    /\ pc = "loop"
    /\ IF idx > profile_urls
       THEN /\ pc' = "cleanup"
            /\ UNCHANGED <<current_scraper, current_account, drivers, events>>
       ELSE IF AtLimit
       THEN /\ drivers' = IF current_scraper # None
                          THEN Stop(drivers, current_scraper) ELSE drivers
            /\ events' = IF current_scraper # None
                         THEN Append(events, Event("stop", current_account, current_scraper, now))
                         ELSE events
            /\ current_scraper' = None
            /\ current_account' = None
            /\ pc' = "select"
       ELSE /\ pc' = IF current_account = None THEN "select" ELSE "scrape"
            /\ UNCHANGED <<current_scraper, current_account, drivers, events>>
    /\ UNCHANGED <<config, extraction, database, auth, account_usage, cookie_files, now, profile_urls, idx,
                   results, account, calls>>

\* account = self._get_available_account()
SelectAccount ==
    /\ pc = "select"
    /\ LET r == GetAvailableAccount(account_usage, now)
       IN /\ account' = r.account
          /\ account_usage' = r.usage
          /\ events' = Append(events, Event("select", r.account, None, now))
          /\ pc' = IF r.account = None THEN "wait" ELSE "init"
    /\ UNCHANGED <<config, extraction, database, auth, current_scraper, current_account, drivers,
                   cookie_files, now, profile_urls, idx, results, calls>>

\* variant: the sleep is given minutes as seconds, less than a clock tick
CooldownWait_seconds ==
    /\ pc = "wait"
    /\ now' = now
    /\ events' = Append(events, Event("wait", None, None, now'))
    /\ pc' = "retry"
    /\ UNCHANGED <<config, extraction, database, auth, account_usage,
                   current_scraper, current_account, drivers, cookie_files,
                   profile_urls, idx, results, account, calls>>

\* await asyncio.sleep(self.cooldown_minutes * 60)
CooldownWait ==
    /\ pc = "wait"
    /\ now' = now + cooldown_minutes
    /\ events' = Append(events, Event("wait", None, None, now'))
    /\ pc' = "retry"
    /\ UNCHANGED <<config, extraction, database, auth, account_usage, current_scraper, current_account,
                   drivers, cookie_files, profile_urls, idx, results, account,
                   calls>>

\* variant: when the retry finds no account the loop goes on to the next target
RetrySelect_continue ==
    /\ pc = "retry"
    /\ LET r == GetAvailableAccount(account_usage, now)
       IN /\ account' = r.account
          /\ account_usage' = r.usage
          /\ events' = Append(events, Event("retry", r.account, None, now))
          /\ pc' = IF r.account = None THEN "loop" ELSE "init"
          /\ idx' = IF r.account = None THEN idx + 1 ELSE idx
    /\ UNCHANGED <<config, extraction, database, auth, current_scraper, current_account, drivers,
                   cookie_files, now, profile_urls, results, calls>>

\* variant: when the retry finds no account the call waits again
RetrySelect_again ==
    /\ pc = "retry"
    /\ LET r == GetAvailableAccount(account_usage, now)
       IN /\ account' = r.account
          /\ account_usage' = r.usage
          /\ events' = Append(events, Event("retry", r.account, None, now))
          /\ pc' = IF r.account = None THEN "wait" ELSE "init"
    /\ UNCHANGED <<config, extraction, database, auth, current_scraper,
                   current_account, drivers, cookie_files, now, profile_urls,
                   idx, results, calls>>

\* the second _get_available_account, and the break when it finds none
RetrySelect ==
    /\ pc = "retry"
    /\ LET r == GetAvailableAccount(account_usage, now)
       IN /\ account' = r.account
          /\ account_usage' = r.usage
          /\ events' = Append(events, Event("retry", r.account, None, now))
          /\ pc' = IF r.account = None THEN "cleanup" ELSE "init"
    /\ UNCHANGED <<config, extraction, database, auth, current_scraper, current_account, drivers,
                   cookie_files, now, profile_urls, idx, results, calls>>

\* ---- the drivers initialize_account creates ----
Driver(a, session) == [account |-> a, session |-> session, stops |-> 0, call |-> calls]

\* ---- LinkedInScraper.login_with_cookies ----
ReplayOutcomes == {Landed(FeedPage), Landed(LoginRedirect), Landed(LoginPage), Raised}

\* "feed" in current_url
Contains(url, part) == \E i \in 1..Len(url) : url[i] = part

LoginWithCookies(landing) ==
    IF landing.raised THEN FALSE ELSE Contains(landing.url, "feed")

\* ---- LinkedInScraper.login ----
LoginOutcomes  == {"success", "checkpoint", "failure"}

\* variant: the checkpoint test is merged into the success test
LoginReturn_checkpointOk(outcome, d) ==
    IF outcome \in {"success", "checkpoint"}
    THEN [success |-> TRUE, cookies |-> d]
    ELSE [success |-> FALSE, cookies |-> NoCookies]

\* the tuple login returns; the cookie set of a login is named by its driver
LoginReturn(outcome, d) ==
    IF outcome = "success"
    THEN [success |-> TRUE, cookies |-> d]
    ELSE [success |-> FALSE, cookies |-> NoCookies]

\* ---- initialize_account ----
\* variant: the credential login is tried first, the stored cookies after it
Authenticate_loginFirst(stored, landing, outcome, d) ==
    LET login    == <<LoginReturn(outcome, d)>>
        byLogin  == login[1].success
        replay   == IF ~byLogin /\ stored # NoCookies
                    THEN <<LoginWithCookies(landing)>> ELSE <<>>
        byCookie == replay = <<TRUE>>
    IN [stored  |-> stored,
        landing |-> IF replay # <<>> THEN landing ELSE NoLanding,
        replay  |-> replay,
        outcome |-> outcome,
        login   |-> login,
        session |-> IF byLogin THEN "login"
                    ELSE IF byCookie THEN "cookies" ELSE "none"]

\* the calls it makes on the new driver d and the session they leave:
\* replay and login hold the value returned by login_with_cookies and login,
\* or nothing when the call was not made
Authenticate(stored, landing, outcome, d) ==
    LET replay   == IF stored # NoCookies THEN <<LoginWithCookies(landing)>> ELSE <<>>
        byCookie == replay = <<TRUE>>
        login    == IF byCookie THEN <<>> ELSE <<LoginReturn(outcome, d)>>
        byLogin  == login # <<>> /\ login[1].success
    IN [stored  |-> stored,
        landing |-> IF stored # NoCookies THEN landing ELSE NoLanding,
        replay  |-> replay,
        outcome |-> IF byCookie THEN "none" ELSE outcome,
        login   |-> login,
        session |-> IF byCookie THEN "cookies"
                    ELSE IF byLogin THEN "login" ELSE "none"]

\* variant: an existing cookie file is not overwritten
CookiesAfter_keepExisting(files, a, d, au) ==
    IF au.session = "login" /\ files[a] = NoCookies
    THEN [files EXCEPT ![a] = d] ELSE files

\* variant: the cookie file is removed when its replay failed
CookiesAfter_dropFailed(files, a, d, au) ==
    IF au.session = "login" THEN [files EXCEPT ![a] = d]
    ELSE IF au.replay = <<FALSE>> THEN [files EXCEPT ![a] = NoCookies]
    ELSE files

\* save_cookies_to_file after a successful login
CookiesAfter(files, a, d, au) ==
    IF au.session = "login" THEN [files EXCEPT ![a] = d] ELSE files

\* success = await self.initialize_account(...), and the continue on failure
InitializeAccount(replay, login) ==
    /\ pc = "init"
    /\ LET new == Len(drivers) + 1
           au  == Authenticate(cookie_files[account], replay, login, new)
       IN /\ drivers' = Append(drivers, Driver(account, au.session))
          /\ current_scraper' = new
          /\ cookie_files' = CookiesAfter(cookie_files, account, new, au)
          /\ auth' = au
          /\ events' = Append(events, Event("init", account, new, now))
          /\ IF au.session # "none"
             THEN /\ current_account' = account
                  /\ pc' = "scrape"
                  /\ UNCHANGED <<account_usage, idx>>
             ELSE /\ account_usage' = [account_usage EXCEPT ![account].is_available = FALSE]
                  /\ idx' = idx + 1
                  /\ pc' = "loop"
                  /\ UNCHANGED current_account
    /\ UNCHANGED <<config, extraction, database, now, profile_urls, results, account, calls>>

\* ---- LinkedInScraper.scrape_profile ----
ScrapeOutcomes == {"ok", "not_found", "error"}

Live(d) == drivers[d].stops = 0 /\ drivers[d].session # "none"

\* variant: the 'profile not found' return carries no error message
Result_noMessage(outcome) ==
    [target  |-> idx,
     success |-> outcome = "ok",
     error   |-> outcome = "error",
     account |-> current_account,
     driver  |-> current_scraper]

Result(outcome) ==
    [target  |-> idx,
     success |-> outcome = "ok",
     error   |-> outcome # "ok",
     account |-> current_account,
     driver  |-> current_scraper]

\* variant: last_used is the clock read before the scrape was awaited
RecordUsage_startTime(au, a, t) ==
    [au EXCEPT ![a].profiles_scraped = @ + 1, ![a].last_used = now]

\* the usage update after a scrape
RecordUsage(au, a, t) ==
    [au EXCEPT ![a].profiles_scraped = @ + 1, ![a].last_used = t]

\* variant: the usage is updated only when the result has success = true
ScrapeProfile_successOnly(outcome, d) ==
    /\ pc = "scrape"
    /\ Live(current_scraper) \/ outcome = "error"
    /\ now' = now + d
    /\ results' = Append(results, Result(outcome))
    /\ account_usage' = IF current_account # None /\ outcome = "ok"
                        THEN RecordUsage(account_usage, current_account, now')
                        ELSE account_usage
    /\ events' = Append(events, Event("scrape", current_account, current_scraper, now'))
    /\ pc' = "pace"
    /\ UNCHANGED <<config, extraction, database, auth, current_scraper, current_account, drivers,
                   cookie_files, profile_urls, idx, account, calls>>

\* result = await self.current_scraper.scrape_profile(profile_url), the append
\* and the usage update
ScrapeProfile(outcome, d) ==
    /\ pc = "scrape"
    /\ Live(current_scraper) \/ outcome = "error"
    /\ now' = now + d
    /\ results' = Append(results, Result(outcome))
    /\ account_usage' = IF current_account # None
                        THEN RecordUsage(account_usage, current_account, now')
                        ELSE account_usage
    /\ events' = Append(events, Event("scrape", current_account, current_scraper, now'))
    /\ pc' = "pace"
    /\ UNCHANGED <<config, extraction, database, auth, current_scraper, current_account, drivers,
                   cookie_files, profile_urls, idx, account, calls>>

\* variant: after a failed result the loop stays on the same target
Pace_retry(d) ==
    /\ pc = "pace"
    /\ now' = now + d
    /\ idx' = IF results[Len(results)].success THEN idx + 1 ELSE idx
    /\ pc' = "loop"
    /\ UNCHANGED <<config, extraction, database, auth, account_usage, current_scraper, current_account,
                   drivers, cookie_files, profile_urls, results, account,
                   calls, events>>

\* await asyncio.sleep(random.uniform(5, 10)), then the next iteration
Pace(d) ==
    /\ pc = "pace"
    /\ now' = now + d
    /\ idx' = idx + 1
    /\ pc' = "loop"
    /\ UNCHANGED <<config, extraction, database, auth, account_usage, current_scraper, current_account,
                   drivers, cookie_files, profile_urls, results, account,
                   calls, events>>

\* the cleanup after the loop, and the return
Cleanup ==
    /\ pc = "cleanup"
    /\ drivers' = IF current_scraper # None
                  THEN Stop(drivers, current_scraper) ELSE drivers
    /\ events' = IF current_scraper # None
                 THEN Append(events, Event("stop", current_account, current_scraper, now))
                 ELSE events
    /\ pc' = "idle"
    /\ UNCHANGED <<config, extraction, database, auth, account_usage, current_scraper, current_account,
                   cookie_files, now, profile_urls, idx, results, account,
                   calls>>

Steps == 0..MaxStep

Next ==
    \/ \E n \in 0..MaxTargets, gap \in {0, cooldown_minutes} : Call(n, gap)
    \/ NextTarget
    \/ SelectAccount
    \/ CooldownWait
    \/ RetrySelect
    \/ \E replay \in ReplayOutcomes, login \in LoginOutcomes :
          InitializeAccount(replay, login)
    \/ \E outcome \in ScrapeOutcomes, d \in Steps : ScrapeProfile(outcome, d)
    \/ \E d \in Steps : Pace(d)
    \/ Cleanup

Spec == Init /\ [][Next]_vars

\* the steps of a call that has been made: the event loop resumes the
\* coroutine whenever the driver call or the sleep it awaits has returned
Resume ==
    \/ NextTarget
    \/ SelectAccount
    \/ CooldownWait
    \/ RetrySelect
    \/ \E replay \in ReplayOutcomes, login \in LoginOutcomes :
          InitializeAccount(replay, login)
    \/ \E outcome \in ScrapeOutcomes, d \in Steps : ScrapeProfile(outcome, d)
    \/ \E d \in Steps : Pace(d)
    \/ Cleanup

\* every driver call and every wait returns
FairSpec == Spec /\ WF_vars(Resume)

\* ---- the experience section of a profile page ----
\* an optional value: nothing when a selector finds no element or a dict has
\* no such key, else the one value
NoElement == <<>>
Element(v) == <<v>>
Optional(S) == {NoElement} \cup {Element(v) : v \in S}

\* dict.get(key, default)
GetOr(opt, default) == IF opt = <<>> THEN default ELSE opt[1]

\* texts (inner_text) are sequences of tokens: words, " " and "\n"
CompanyTexts == {<<"Acme">>, <<"Birla">>}
TitleTexts   == {<<" ", "Engineer", "\n", "Engineer">>, <<"\n", "Engineer">>}
DateTexts    == {<<"2020", "-", "Present">>, <<"2018", "-", "2020">>}

\* one li of the list: what its three selectors yield, or an error raised
\* while it is read
Unreadable ==
    [company |-> NoElement, title |-> NoElement, date |-> NoElement, raises |-> TRUE]

Items ==
    [company : Optional(CompanyTexts), title : Optional(TitleTexts),
     date : Optional(DateTexts), raises : {FALSE}] \cup {Unreadable}

Pages == UNION {[1..n -> Items] : n \in 0..MaxItems}

\* exp_items[:10]
ItemLimit == 10

Take(s, n) == SubSeq(s, 1, IF Len(s) < n THEN Len(s) ELSE n)

\* title_text.split('\n')[0]
RECURSIVE FirstLine(_)
FirstLine(text) ==
    IF text = <<>> \/ Head(text) = "\n" THEN <<>>
    ELSE <<Head(text)>> \o FirstLine(Tail(text))

\* str.strip()
Blank(token) == token \in {" ", "\n"}

RECURSIVE LStrip(_)
LStrip(text) ==
    IF text # <<>> /\ Blank(Head(text)) THEN LStrip(Tail(text)) ELSE text

RECURSIVE RStrip(_)
RStrip(text) ==
    IF text # <<>> /\ Blank(text[Len(text)])
    THEN RStrip(SubSeq(text, 1, Len(text) - 1)) ELSE text

Strip(text) == RStrip(LStrip(text))

\* ---- LinkedInScraper._extract_experience ----
\* the dict job of the i-th item (i counts from 0)
Job(i, item) ==
    [order_index  |-> i,
     company_name |-> item.company,
     job_title    |-> IF item.title = NoElement THEN NoElement
                      ELSE Element(Strip(FirstLine(item.title[1]))),
     date_range   |-> item.date,
     is_current   |-> IF item.date = NoElement THEN NoElement
                      ELSE Element(Contains(item.date[1], "Present"))]

\* truth value of dict.get(key): the key is there and its text is not empty
Truthy(opt) == opt # <<>> /\ opt[1] # <<>>

\* the item reaches experience.append(job)
Appended(item, job) ==
    ~item.raises /\ (Truthy(job.company_name) \/ Truthy(job.job_title))

\* variant: each job is inserted at the front of the list
RECURSIVE ExtractFrom_prepend(_, _, _)
ExtractFrom_prepend(items, i, experience) ==
    IF i > Len(items) THEN experience
    ELSE LET job == Job(i - 1, items[i])
         IN ExtractFrom_prepend(items, i + 1,
                IF Appended(items[i], job) THEN <<job>> \o experience
                                           ELSE experience)

\* the for loop over the items, from the i-th on
RECURSIVE ExtractFrom(_, _, _)
ExtractFrom(items, i, experience) ==
    IF i > Len(items) THEN experience
    ELSE LET job == Job(i - 1, items[i])
         IN ExtractFrom(items, i + 1,
                IF Appended(items[i], job) THEN Append(experience, job)
                                           ELSE experience)

ExtractExperience(pg) ==
    IF pg.raised THEN <<>>
    ELSE ExtractFrom(Take(pg.exp_items, ItemLimit), 1, <<>>)

\* ---- LinkedInScraper._extract_profile_data ----
\* the keys experience, current_company and current_designation of data
ProfileData(pg) ==
    LET experience == ExtractExperience(pg)
        current    == experience # <<>> /\ GetOr(experience[1].is_current, TRUE)
    IN [experience          |-> experience,
        current_company     |-> IF current THEN Element(experience[1].company_name)
                                ELSE NoElement,
        current_designation |-> IF current THEN Element(experience[1].job_title)
                                ELSE NoElement]

ExtractProfileData ==
    /\ data = <<>>
    /\ data' = Element(ProfileData(page))
    /\ UNCHANGED <<page, coordinator, database>>

\* a page is open: query_selector_all yields its items, or raises
ExtractInit ==
    /\ page \in [raised : {FALSE}, exp_items : Pages]
                  \cup {[raised |-> TRUE, exp_items |-> <<>>]}
    /\ data = <<>>
    /\ NoCoordinator
    /\ NoDatabase

ExtractNext == ExtractProfileData

ExtractSpec == ExtractInit /\ [][ExtractNext]_vars

\* ---- the database: tables alumni, job_history, scrape_logs ----
\* a row is a record of its columns, a dict a function from its keys; NULL and
\* Python's None are None, a last_scraped_at of NULL is Never
LinkedinIds == 1..MaxIds
Companies   == 1..MaxCompanies

\* Alumni(): the defaults of the columns
NewAlumni ==
    [linkedin_id |-> None, current_company |-> None,
     last_scraped_at |-> Never, scrape_count |-> 0]

\* dict[key] = value
DictSet(d, key, value) ==
    [k \in DOMAIN d \cup {key} |-> IF k = key THEN value ELSE d[k]]

\* setattr(row, key, value) for every key of d that is a column of the row
SetAttrs(row, d) ==
    [c \in DOMAIN row |-> IF c \in DOMAIN d THEN d[c] ELSE row[c]]

\* the unique index on alumni.linkedin_id
UniqueIds(t) ==
    \A i, j \in 1..Len(t) :
        (i # j /\ t[i].linkedin_id # None) => t[i].linkedin_id # t[j].linkedin_id

\* AlumniRepository.get_by_linkedin_id: the id of the first such row, or None
GetByLinkedinId(t, l) ==
    IF \E i \in 1..Len(t) : t[i].linkedin_id = l
    THEN CHOOSE i \in 1..Len(t) :
            /\ t[i].linkedin_id = l
            /\ \A j \in 1..Len(t) : t[j].linkedin_id = l => i <= j
    ELSE None

\* AlumniRepository.update: the table after it; the commit fails, and nothing
\* is written, when it would break the unique index
Update(t, id, d) ==
    LET t2 == [t EXCEPT ![id] = SetAttrs(@, d)]
    IN IF UniqueIds(t2) THEN [raised |-> FALSE, table |-> t2]
       ELSE [raised |-> TRUE, table |-> t]

\* AlumniRepository.create; the keys of the dicts given are columns
Create(t, d) == Append(t, SetAttrs(NewAlumni, d))

\* the dicts given to upsert_from_linkedin
DataDicts ==
    {[current_company |-> c] : c \in Companies}
      \cup {[linkedin_id |-> l, current_company |-> c] :
               l \in LinkedinIds, c \in Companies}

\* AlumniRepository.upsert_from_linkedin; data is the dict as the call leaves it
UpsertFromLinkedin(linkedin_id, d) ==
    /\ last_op.op \in {"none", "upsert"}
    /\ last_op.n < MaxOps
    /\ LET existing == GetByLinkedinId(alumni, linkedin_id)
       IN IF existing # None
          THEN LET u == Update(alumni, existing, d)
               IN /\ alumni' = u.table
                  /\ last_op' = [op |-> "upsert", n |-> last_op.n + 1,
                                 linkedin_id |-> linkedin_id, given |-> d,
                                 data |-> d, created |-> FALSE, raised |-> u.raised]
          ELSE LET d2 == DictSet(d, "linkedin_id", linkedin_id)
               IN /\ alumni' = Create(alumni, d2)
                  /\ last_op' = [op |-> "upsert", n |-> last_op.n + 1,
                                 linkedin_id |-> linkedin_id, given |-> d,
                                 data |-> d2, created |-> TRUE, raised |-> FALSE]
    /\ UNCHANGED <<job_history, scrape_logs, utcnow, dry_run, scrape_results,
                   processed, coordinator, extraction>>

\* AlumniRepository.get_alumni_needing_scrape: the ids of the rows returned
NeedingScrape(t, today, days_since_last_scrape) ==
    LET cutoff_date == today
    IN {i \in 1..Len(t) :
           /\ t[i].last_scraped_at = Never \/ t[i].last_scraped_at < cutoff_date
           /\ t[i].linkedin_id # None}

GetAlumniNeedingScrape(days) ==
    /\ last_op.op = "none"
    /\ last_op' = [op |-> "needing", n |-> 1, days |-> days,
                   returned |-> NeedingScrape(alumni, utcnow, days)]
    /\ UNCHANGED <<alumni, job_history, scrape_logs, utcnow, dry_run,
                   scrape_results, processed, coordinator, extraction>>

\* ---- JobHistoryRepository ----
\* the dicts given to bulk_create: a company, and perhaps an order_index of
\* the caller's
JobDicts ==
    {[company_name |-> c] : c \in Companies}
      \cup {[company_name |-> c, order_index |-> x] :
               c \in Companies, x \in {0, MaxJobs}}

JobLists == UNION {[1..n -> JobDicts] : n \in 0..MaxJobs}

\* JobHistory(): the defaults of the columns
NewJobHistory == [alumni_id |-> None, company_name |-> None, order_index |-> 0]

\* delete_by_alumni_id
DeleteByAlumniId(t, a) == SelectSeq(t, LAMBDA row : row.alumni_id # a)

\* variant: an order_index the caller gave is kept (setdefault)
JobData_keepIndex(d, a, i) ==
    IF "order_index" \in DOMAIN d THEN DictSet(d, "alumni_id", a)
    ELSE DictSet(DictSet(d, "alumni_id", a), "order_index", i)

\* job_data['alumni_id'] = alumni_id; job_data['order_index'] = i
JobData(d, a, i) == DictSet(DictSet(d, "alumni_id", a), "order_index", i)

BulkCreate(alumni_id, jobs) ==
    /\ last_op.op = "none"
    /\ alumni_id \in 1..Len(alumni)
    /\ job_history' =
          DeleteByAlumniId(job_history, alumni_id)
             \o [k \in 1..Len(jobs) |->
                    SetAttrs(NewJobHistory, JobData(jobs[k], alumni_id, k - 1))]
    /\ last_op' = [op |-> "bulk_create", n |-> 1, alumni_id |-> alumni_id,
                   jobs |-> jobs]
    /\ UNCHANGED <<alumni, scrape_logs, utcnow, dry_run, scrape_results,
                   processed, coordinator, extraction>>

\* get_by_alumni_id: the lists the query may return, the order of rows of
\* equal order_index being the database's choice
HistoryOf(t, a) == {i \in 1..Len(t) : t[i].alumni_id = a}

GetByAlumniId(t, a) ==
    LET P == HistoryOf(t, a)
        n == Cardinality(P)
    IN {[k \in 1..n |-> t[s[k]]] :
           s \in {q \in [1..n -> P] :
                    /\ \A j, k \in 1..n : j # k => q[j] # q[k]
                    /\ \A j, k \in 1..n :
                          j < k => t[q[j]].order_index <= t[q[k]].order_index}}

\* ---- scripts/run_scraper.py ----
\* days_since_last_scrape=180
ScrapeAfterDays == 180

\* one element of results, as far as the loop reads it: success,
\* data.get('linkedin_id') and data.get('current_company')
ScrapeResults ==
    [success : {TRUE}, linkedin_id : {None} \cup LinkedinIds,
     current_company : {None} \cup Companies]
      \cup {[success |-> FALSE, linkedin_id |-> None, current_company |-> None]}

ResultLists == UNION {[1..n -> ScrapeResults] : n \in 0..MaxResults}

\* run_scraper up to the loop over results: it returns before the loop when no
\* alumni needs scraping, and scrapes at most one profile per alumni returned
RunScraper(dry, rs) ==
    /\ last_op.op = "none"
    /\ LET alumni_to_scrape == NeedingScrape(alumni, utcnow, ScrapeAfterDays)
       IN /\ alumni_to_scrape # {}
          /\ Len(rs) <= Cardinality(alumni_to_scrape)
    /\ dry_run' = dry
    /\ scrape_results' = rs
    /\ processed' = 0
    /\ last_op' = [op |-> "run_scraper", n |-> 1]
    /\ UNCHANGED <<alumni, job_history, scrape_logs, utcnow, coordinator,
                   extraction>>

\* if alumni and not dry_run
UpdatesAlumni(found, dry) == found # None /\ ~dry

\* variant: a failed scrape is logged in a dry run as well
LogsFailure_always(dry) == TRUE

\* if not dry_run
LogsFailure(dry) == ~dry

\* one pass of the loop over results
ProcessResult ==
    /\ last_op.op = "run_scraper"
    /\ processed < Len(scrape_results)
    /\ processed' = processed + 1
    /\ LET result == scrape_results[processed + 1]
           found  == GetByLinkedinId(alumni, result.linkedin_id)
       IN IF result.success
          THEN IF result.linkedin_id # None /\ UpdatesAlumni(found, dry_run)
               THEN /\ alumni' =
                         Update(alumni, found,
                                [current_company |-> result.current_company,
                                 last_scraped_at |-> utcnow,
                                 scrape_count    |-> alumni[found].scrape_count + 1]).table
                    /\ scrape_logs' =
                         Append(scrape_logs, [alumni_id |-> found, status |-> "success"])
               ELSE UNCHANGED <<alumni, scrape_logs>>
          ELSE /\ scrape_logs' =
                    IF LogsFailure(dry_run)
                    THEN Append(scrape_logs, [alumni_id |-> None, status |-> "failed"])
                    ELSE scrape_logs
               /\ UNCHANGED alumni
    /\ UNCHANGED <<job_history, utcnow, last_op, dry_run, scrape_results,
                   coordinator, extraction>>

\* ---- a session on a store ----
AlumniRows ==
    [linkedin_id : {None} \cup LinkedinIds, current_company : {None},
     last_scraped_at : {Never} \cup 0..MaxDays, scrape_count : {0}]

AlumniTables ==
    {t \in UNION {[1..n -> AlumniRows] : n \in 0..MaxAlumni} : UniqueIds(t)}

\* the job history a store starts with: at most one row per alumni
JobTables(n) ==
    {t \in UNION {[1..k -> [alumni_id : 1..n, company_name : {1}, order_index : {0}]] :
                     k \in 0..n} :
        \A j, k \in 1..Len(t) : j < k => t[j].alumni_id < t[k].alumni_id}

DbInit ==
    /\ alumni \in AlumniTables
    /\ job_history \in JobTables(Len(alumni))
    /\ scrape_logs = <<>>
    /\ utcnow = MaxDays
    /\ last_op = [op |-> "none", n |-> 0]
    /\ dry_run = FALSE
    /\ scrape_results = <<>>
    /\ processed = 0
    /\ NoCoordinator
    /\ NoPage

DbNext ==
    \/ \E l \in LinkedinIds, d \in DataDicts : UpsertFromLinkedin(l, d)
    \/ \E days \in 0..MaxDays : GetAlumniNeedingScrape(days)
    \/ \E a \in 1..MaxAlumni, jobs \in JobLists : BulkCreate(a, jobs)
    \/ \E dry \in BOOLEAN, rs \in ResultLists : RunScraper(dry, rs)
    \/ ProcessResult

DbSpec == DbInit /\ [][DbNext]_vars

\* ---- vocabulary of the properties ----
Returned == pc = "idle" /\ calls > 0

\* the run ended through the break of the 'no accounts available' branch
Aborted == \E k \in 1..Len(events) :
               events[k].op = "retry" /\ events[k].account = None

LastEvent == events[Len(events)]

SelectStep == pc \in {"select", "retry"} /\ pc' # pc
ScrapeStep == pc = "scrape" /\ pc' = "pace"

\* the usage record says: used, and the cooldown has / has not passed at t
CooledDown(usage, t) ==
    usage.last_used # Never /\ t - usage.last_used >= cooldown_minutes
WithinCooldown(usage, t) ==
    usage.last_used # Never /\ t - usage.last_used < cooldown_minutes
AtCap(usage) == usage.profiles_scraped >= max_profiles_per_account

\* C1: a call that returns without the 'no accounts available' abort has
\* produced exactly one result per input target.
C1_OneResultPerTarget ==
    (Returned /\ ~Aborted) => Len(results) = profile_urls

\* C2: when a call returns, aborted or not, the targets of its results are a
\* contiguous prefix of the input list, in input order.
C2_ResultsArePrefix ==
    Returned => \A k \in 1..Len(results) : results[k].target = k

\* C3: when a call returns, every driver started during the call has been
\* stopped exactly once.
C3_DriversStoppedOnce ==
    Returned => \A d \in 1..Len(drivers) :
                    drivers[d].call = calls => drivers[d].stops = 1

\* C4: _get_available_account never returns an account that is at or above
\* the cap while less than cooldown_minutes have passed since its last use.
C4_NoCappedAccountWithinCooldown ==
    [][(SelectStep /\ account' # None) =>
          ~(AtCap(account_usage[account']) /\
            WithinCooldown(account_usage[account'], now))]_vars

\* a selection passed over account 1, capped and within its cooldown, and
\* returned account 2
C4_Witness ==
    /\ pc = "init" /\ account = 2
    /\ account_usage[1].is_available
    /\ AtCap(account_usage[1])
    /\ WithinCooldown(account_usage[1], now)

\* the accounts a selection looks at when it returns r
Considered(r) == IF r = None THEN Accounts ELSE 1..r

\* C5: a selection resets the counter of every account it considers whose
\* cooldown has passed, before the cap check, so that such an account, when
\* available, is the one returned; it changes no last_used, no is_available
\* and no counter of an account after the returned one.
C5_ResetBeforeCapCheck ==
    [][SelectStep => \A a \in Accounts :
          /\ (a \in Considered(account') /\ CooledDown(account_usage[a], now))
                => /\ account_usage'[a].profiles_scraped = 0
                   /\ account_usage[a].is_available => account' = a
          /\ account_usage'[a].last_used = account_usage[a].last_used
          /\ account_usage'[a].is_available = account_usage[a].is_available
          /\ (account' # None /\ a > account')
                => account_usage'[a] = account_usage[a]]_vars

\* the first selection of a later iteration returned the account that had just
\* been torn down at the cap: its cooldown had passed and its counter is reset
C5_Witness ==
    /\ pc = "init" /\ LastEvent.op = "select"
    /\ cooldown_minutes > 0
    /\ results # <<>> /\ results[Len(results)].account = account
    /\ account_usage[account].profiles_scraped = 0
    /\ CooledDown(account_usage[account], now)

\* an account qualifies: available, and below the cap or past its cooldown
Qualifies(usage, t) ==
    usage.is_available /\ (~AtCap(usage) \/ CooledDown(usage, t))

FirstQualifying(au, t) ==
    IF \E a \in Accounts : Qualifies(au[a], t)
    THEN CHOOSE a \in Accounts :
            /\ Qualifies(au[a], t)
            /\ \A b \in Accounts : Qualifies(au[b], t) => a <= b
    ELSE None

\* C6: a selection returns the first account in configuration order that
\* qualifies, and None exactly when no account qualifies.
C6_FirstQualifyingAccount ==
    [][SelectStep => account' = FirstQualifying(account_usage, now)]_vars

\* a selection found two available accounts and returned None, and another
\* returned the second account because the first did not qualify
C6_Witness ==
    /\ pc = "wait" /\ accounts = 2
    /\ \A a \in Accounts : account_usage[a].is_available
    /\ \E k \in 1..Len(events) :
          events[k].op \in {"select", "retry"} /\ events[k].account = 2

\* the authentication of account a has failed on some driver
AuthFailed(a) ==
    \E d \in 1..Len(drivers) :
        drivers[d].account = a /\ drivers[d].session = "none"

\* C7: once the authentication of an account has failed, its is_available
\* flag is false in every later state, no selection returns it and no driver
\* is created for it again.
C7_FailedAccountNeverReused ==
    \A a \in Accounts : AuthFailed(a) =>
        /\ ~account_usage[a].is_available
        /\ pc = "init" => account # a
        /\ \A d1, d2 \in 1..Len(drivers) :
              (d1 < d2 /\ drivers[d1].account = a /\ drivers[d1].session = "none")
                 => drivers[d2].account # a

\* after the failure of a used account, a cooldown wait passed its cooldown and
\* the retry considered it again
C7_Witness ==
    /\ events # <<>> /\ LastEvent.op = "retry"
    /\ \E a \in Accounts :
          /\ AuthFailed(a)
          /\ CooledDown(account_usage[a], now)
          /\ account_usage[a].profiles_scraped = 0

Counter(au, a) == au[a].profiles_scraped

\* the counter of a was reset by a selection that found its cooldown passed
ResetStep(a) ==
    SelectStep /\ CooledDown(account_usage[a], now) /\ Counter(account_usage', a) = 0

\* the flag of a was cleared by a failed authentication of a
DeactivateStep(a) ==
    /\ pc = "init" /\ account = a
    /\ drivers'[Len(drivers')].session = "none"
    /\ ~account_usage'[a].is_available

\* C8 as stated: the counter changes only by an increase on a successful
\* scrape and by the cooldown reset; a scrape whose result has success = false
\* leaves the counter unchanged.
C8_CounterCountsSuccesses ==
    [][\A a \in Accounts :
          /\ Counter(account_usage', a) # Counter(account_usage, a)
                => \/ /\ ScrapeStep /\ a = current_account
                      /\ results'[Len(results')].success
                      /\ Counter(account_usage', a) = Counter(account_usage, a) + 1
                   \/ ResetStep(a)
          /\ (ScrapeStep /\ a = current_account /\ ~results'[Len(results')].success)
                => Counter(account_usage', a) = Counter(account_usage, a)]_vars

\* C8 amended: the counter changes only by an increase of one on a scrape
\* attempt of the current account and by the cooldown reset, the flag only by
\* the deactivation on an authentication failure; a scrape attempt increases
\* the counter whether its result has success true or false.
C8_CounterCountsAttempts ==
    [][\A a \in Accounts :
          /\ Counter(account_usage', a) # Counter(account_usage, a)
                => \/ /\ ScrapeStep /\ a = current_account
                      /\ Counter(account_usage', a) = Counter(account_usage, a) + 1
                   \/ ResetStep(a)
          /\ account_usage'[a].is_available # account_usage[a].is_available
                => DeactivateStep(a)
          /\ (ScrapeStep /\ a = current_account)
                => Counter(account_usage', a) = Counter(account_usage, a) + 1]_vars

\* the only scrape so far failed and the counter of its account is 1
C8_Witness ==
    /\ pc = "pace" /\ calls = 1 /\ Len(results) = 1
    /\ ~results[1].success
    /\ Counter(account_usage, current_account) = 1

\* C9: a recorded scrape increases the current account's counter by exactly
\* one and sets its last_used to the time of the record; the usage of every
\* other account, and the current account's flag, are unchanged.
C9_RecordOfAScrape ==
    [][ScrapeStep => \A a \in Accounts :
          IF a = current_account
          THEN /\ Counter(account_usage', a) = Counter(account_usage, a) + 1
               /\ account_usage'[a].last_used = now'
               /\ account_usage'[a].is_available = account_usage[a].is_available
          ELSE account_usage'[a] = account_usage[a]]_vars

\* a scrape has been recorded after the clock advanced during it, while the
\* account of the previous result carries usage of its own
C9_Witness ==
    /\ pc = "pace" /\ Len(results) >= 2
    /\ account_usage[current_account].last_used = now
    /\ \E b \in Accounts :
          /\ b # current_account
          /\ results[Len(results) - 1].account = b
          /\ account_usage[b].last_used # Never
          /\ account_usage[b].last_used < now

\* no first selection of an iteration happened cooldown_minutes or more after
\* an earlier scrape of the call
NoCooldownElapsed ==
    \A j, k \in 1..Len(events) :
        (j < k /\ events[j].op = "scrape" /\ events[k].op = "select")
           => events[k].at - events[j].at < cooldown_minutes

\* the first call on a coordinator of two accounts that both authenticate,
\* with a cap of one profile and three targets
TwoAccountsThreeTargets ==
    /\ calls = 1 /\ accounts = 2 /\ profile_urls = 3
    /\ max_profiles_per_account = 1
    /\ \A d \in 1..Len(drivers) : drivers[d].session # "none"
    /\ NoCooldownElapsed

Step(op, target, a, d) == [op |-> op, target |-> target, account |-> a, driver |-> d]

RotationThenWait ==
    << Step("select", 1, 1, None), Step("init", 1, 1, 1), Step("scrape", 1, 1, 1),
       Step("stop", 2, 1, 1),
       Step("select", 2, 2, None), Step("init", 2, 2, 2), Step("scrape", 2, 2, 2),
       Step("stop", 3, 2, 2),
       Step("select", 3, None, None), Step("wait", 3, None, None) >>

\* C10: in that scenario the call scrapes the first target with the first
\* account, tears the session down, scrapes the second target with the second
\* account, tears that session down, finds no account for the third target
\* and performs the cooldown wait; it does not return before.
C10_SwitchOnceThenWait ==
    TwoAccountsThreeTargets =>
        /\ \A k \in 1..Len(events) : k <= Len(RotationThenWait) =>
              Step(events[k].op, events[k].target, events[k].account,
                   events[k].driver) = RotationThenWait[k]
        /\ Returned => Len(events) > Len(RotationThenWait)

\* the scenario ran to its end with three results
C10_Witness ==
    TwoAccountsThreeTargets /\ Returned /\ Len(results) = 3

Ops(k) == events[k].op

\* C11: a selection that finds no account is followed by exactly one cooldown
\* wait and exactly one retry, and waits and retries happen nowhere else; when
\* the retry finds no account either, the call does nothing more than stop
\* its driver and return the results it has: no scrape, selection,
\* authentication or wait follows.
C11_OneWaitOneRetryThenAbort ==
    /\ \A k \in 1..Len(events) :
          /\ (Ops(k) = "select" /\ events[k].account = None /\ k < Len(events))
                => Ops(k + 1) = "wait"
          /\ Ops(k) = "wait"
                => /\ k > 1 /\ Ops(k - 1) = "select" /\ events[k - 1].account = None
                   /\ k < Len(events) => Ops(k + 1) = "retry"
          /\ Ops(k) = "retry" => (k > 1 /\ Ops(k - 1) = "wait")
          /\ (Ops(k) = "retry" /\ events[k].account = None)
                => /\ \A j \in (k + 1)..Len(events) : Ops(j) = "stop"
                   /\ \A j \in 1..Len(results) : results[j].target < events[k].target
    /\ pc = "wait"  <=> (events # <<>> /\ LastEvent.op = "select"
                                       /\ LastEvent.account = None)
    /\ pc = "retry" <=> (events # <<>> /\ LastEvent.op = "wait")
    /\ Aborted => pc \in {"cleanup", "idle"}
    /\ Len(results) = Cardinality({k \in 1..Len(events) : Ops(k) = "scrape"})

\* a call returned through the abort of an iteration that was not the last:
\* the retry found no account and the targets after it were left alone
C11_Witness ==
    /\ Returned /\ Aborted
    /\ \E k \in 1..Len(events) :
          Ops(k) = "retry" /\ events[k].account = None /\ events[k].target < profile_urls

\* C12: a call with an empty target list returns an empty list, and no step
\* of it selects an account, changes a usage record, authenticates, or starts
\* or stops a driver, whatever calls came before it.
C12_EmptyCallTouchesNothing ==
    [][(pc # "idle" /\ profile_urls = 0) =>
          /\ results' = <<>>
          /\ events' = <<>>
          /\ account_usage' = account_usage
          /\ drivers' = drivers
          /\ cookie_files' = cookie_files
          /\ current_scraper' = current_scraper
          /\ current_account' = current_account]_vars

\* the drivers that hold an authenticated session and were not stopped
LiveSessions ==
    {d \in 1..Len(drivers) : drivers[d].session # "none" /\ drivers[d].stops = 0}

\* C13: in every state there is at most one live authenticated session; it is
\* the current driver's and belongs to current_account; an account is
\* authenticated only when no session is live.
C13_AtMostOneLiveSession ==
    /\ Cardinality(LiveSessions) <= 1
    /\ \A d \in LiveSessions :
          d = current_scraper /\ drivers[d].account = current_account
    /\ pc = "init" => LiveSessions = {}

\* an account is about to be authenticated after the session of another
\* account was torn down in the same call
C13_Witness ==
    /\ pc = "init"
    /\ \E d \in 1..Len(drivers) :
          /\ drivers[d].session # "none" /\ drivers[d].call = calls
          /\ drivers[d].stops = 1 /\ drivers[d].account # account

InitStep == pc = "init" /\ pc' # pc

\* C14: initialize_account replays the stored cookie set first, exactly when
\* one exists; a verified replay makes the account current with no credential
\* login and no write to the cookie store; a credential login is made only
\* when no set was stored or the replay returned false.
C14_CookieFirst ==
    [][InitStep =>
          /\ auth'.replay # <<>> <=> cookie_files[account] # NoCookies
          /\ auth'.replay = <<TRUE>>
                => /\ current_account' = account
                   /\ auth'.login = <<>>
                   /\ cookie_files' = cookie_files
          /\ auth'.login # <<>>
                => (cookie_files[account] = NoCookies \/ auth'.replay = <<FALSE>>)]_vars

\* an account has just become current by a verified replay of its stored set
C14_Witness ==
    /\ pc = "scrape" /\ LastEvent.op = "init"
    /\ auth.replay = <<TRUE>> /\ auth.login = <<>>
    /\ current_account = account
    /\ cookie_files[account] = auth.stored

\* C15: after a successful credential login the cookie set stored for the
\* account is the one that login produced; a failed credential login leaves
\* every stored cookie set unchanged.
C15_LoginOverwritesCookies ==
    [][(InitStep /\ auth'.login # <<>>) =>
          IF auth'.login[1].success
          THEN cookie_files'[account] = auth'.login[1].cookies
          ELSE cookie_files' = cookie_files]_vars

\* a successful login has just replaced an earlier stored set whose replay
\* had failed
C15_Witness ==
    /\ pc = "scrape" /\ LastEvent.op = "init"
    /\ auth.stored # NoCookies /\ auth.replay = <<FALSE>>
    /\ auth.login # <<>> /\ auth.login[1].success
    /\ cookie_files[account] = LastEvent.driver
    /\ cookie_files[account] # auth.stored

\* C16 as stated: after an initialize_account whose replay failed, the store
\* no longer holds the set that failed, whether or not the login succeeded.
C16_FailedReplayInvalidates ==
    [][(InitStep /\ auth'.replay = <<FALSE>>) =>
          cookie_files'[account] # auth'.stored]_vars

\* C16 amended: after a failed replay the stored set is replaced by the new
\* one when the fallback login succeeds, and stays stored, unchanged, when
\* the fallback login fails.
C16_FailedReplayKeepsCookies ==
    [][(InitStep /\ auth'.replay = <<FALSE>>) =>
          IF auth'.login[1].success
          THEN /\ cookie_files'[account] = auth'.login[1].cookies
               /\ cookie_files'[account] # auth'.stored
          ELSE cookie_files' = cookie_files]_vars

\* replay and fallback login have both just failed and the set is still stored
C16_Witness ==
    /\ pc = "loop" /\ events # <<>> /\ LastEvent.op = "init"
    /\ auth.replay = <<FALSE>> /\ auth.session = "none"
    /\ cookie_files[LastEvent.account] = auth.stored
    /\ auth.stored # NoCookies

LastResult == results[Len(results)]

\* the loop is at a target whose predecessor has just got a failed result
AfterFailure ==
    /\ pc = "loop" /\ idx <= profile_urls
    /\ results # <<>> /\ ~LastResult.success /\ LastResult.target = idx - 1

\* every result has an error message exactly when it has success = false, and
\* no target with a failed result has a second result
FailuresAreResults(rs) ==
    /\ \A k \in 1..Len(rs) : rs[k].error <=> ~rs[k].success
    /\ \A j, k \in 1..Len(rs) :
          (j # k /\ ~rs[j].success) => rs[k].target # rs[j].target

\* C17 as stated: a failure is a result with success = false and an error
\* message, a success has none; after a failed result the loop scrapes the
\* next target on the same session, and the failed target is not tried again.
C17_FailureKeepsSession ==
    [][/\ FailuresAreResults(results')
       /\ AfterFailure => (pc' = "scrape" /\ current_scraper' = LastResult.driver)]_vars

\* C17 amended: as stated, except that the next target is scraped on the same
\* session only when the account is still below the cap; at the cap, which
\* the failed attempt may have reached, the session is torn down and an
\* account is selected.
C17_FailureKeepsSessionBelowCap ==
    [][/\ FailuresAreResults(results')
       /\ AfterFailure =>
             IF AtCap(account_usage[current_account])
             THEN /\ pc' = "select" /\ current_account' = None
                  /\ drivers'[LastResult.driver].stops =
                        drivers[LastResult.driver].stops + 1
             ELSE /\ pc' = "scrape" /\ idx' = idx
                  /\ current_scraper' = LastResult.driver
                  /\ current_account' = LastResult.account
                  /\ drivers' = drivers]_vars

\* after a failed result the next target is about to be scraped on the same
\* driver
C17_Witness ==
    /\ pc = "scrape" /\ results # <<>>
    /\ ~LastResult.success /\ LastResult.error
    /\ LastResult.target = idx - 1
    /\ LastResult.driver = current_scraper

\* C18: within one call no input position gets two results and the results
\* are in the order of their positions: the positions of the results, and of
\* the scrapes made, increase strictly.
C18_OneAttemptInOrder ==
    /\ \A j, k \in 1..Len(results) : j < k => results[j].target < results[k].target
    /\ \A j, k \in 1..Len(events) :
          (j < k /\ Ops(j) = "scrape" /\ Ops(k) = "scrape")
             => events[j].target < events[k].target

\* a call returned the results of the second and third target, in that order,
\* the first target having been passed over
C18_Witness ==
    /\ Returned /\ Len(results) = 2
    /\ results[1].target = 2 /\ results[2].target = 3
    /\ ~results[1].success

\* the driver of the latest initialize_account
AuthDriver == Len(drivers)

\* C19 as stated: the value login returned is returned for no other outcome,
\* so that success, security checkpoint and plain failure can be told apart.
C19_ThreeOutcomesTellApart ==
    auth.login # <<>> =>
        \A o \in LoginOutcomes \ {auth.outcome} :
            LoginReturn(o, AuthDriver) # auth.login[1]

\* C19 amended: login returns (True, cookies) on success and the one value
\* (False, []) for a security checkpoint and for a plain failure alike.
C19_FailureAndCheckpointAlike ==
    auth.login # <<>> =>
        /\ auth.outcome \in LoginOutcomes
        /\ auth.outcome = "success"
              => auth.login[1] = [success |-> TRUE, cookies |-> AuthDriver]
        /\ auth.outcome \in {"checkpoint", "failure"}
              => auth.login[1] = [success |-> FALSE, cookies |-> NoCookies]

\* a login has ended on a security checkpoint
C19_Witness ==
    /\ auth.login # <<>> /\ auth.outcome = "checkpoint"
    /\ ~auth.login[1].success

\* C20: login_with_cookies returns true exactly when the verification
\* navigation landed on the authenticated feed, and false when it landed on
\* another page or raised.
C20_ReplayTrueOnlyOnFeed ==
    auth.replay # <<>> =>
        (auth.replay[1] <=> (~auth.landing.raised /\ auth.landing.url = FeedPage))

\* ---- properties of the extracted record ----
Extracted == data # <<>>

Record == data[1]

\* the first entry of the experience list is explicitly open-ended: a date
\* range was extracted for it and the range is marked 'Present'
FirstIsOpenEnded(e) ==
    /\ e # <<>>
    /\ e[1].date_range # NoElement
    /\ Contains(e[1].date_range[1], "Present")

\* C21: current_company and current_designation are set only when the
\* experience list is non-empty and its first entry is explicitly open-ended,
\* and then they are the company and title of that first entry; when the
\* first entry has a closed date range or no extracted date range, both are
\* left unset.
C21_CurrentOnlyFromOpenFirstEntry ==
    Extracted =>
        LET e == Record.experience
        IN IF FirstIsOpenEnded(e)
           THEN /\ Record.current_company = Element(e[1].company_name)
                /\ Record.current_designation = Element(e[1].job_title)
           ELSE /\ Record.current_company = NoElement
                /\ Record.current_designation = NoElement

\* the text the code takes for the title of an item
TitleOf(item) ==
    IF item.title = NoElement THEN NoElement
    ELSE Element(Strip(FirstLine(item.title[1])))

Carries(item) == Truthy(item.company) \/ Truthy(TitleOf(item))

\* the entry of the list made from the page item at position i (from 0)
EntriesOf(e, i) == {k \in 1..Len(e) : e[k].order_index = i}

\* C22: the experience list keeps page order: every entry is the page item at
\* the zero-based position its order_index names, order_index increases
\* strictly along the list, every item that was read and carries a company or
\* a title has its entry, and an item lacking both has none.
C22_ExperienceKeepsPageOrder ==
    Extracted =>
        LET e     == Record.experience
            items == page.exp_items
        IN /\ \A k \in 1..Len(e) :
                 /\ e[k].order_index \in 0..(Len(items) - 1)
                 /\ LET item == items[e[k].order_index + 1]
                    IN /\ e[k].company_name = item.company
                       /\ e[k].job_title = TitleOf(item)
                       /\ e[k].date_range = item.date
           /\ \A j, k \in 1..Len(e) : j < k => e[j].order_index < e[k].order_index
           /\ \A i \in 1..Len(items) :
                 /\ (~items[i].raises /\ Carries(items[i]))
                       => Cardinality(EntriesOf(e, i - 1)) = 1
                 /\ ~Carries(items[i]) => EntriesOf(e, i - 1) = {}

\* three items were on the page, the second lacked both company and title,
\* and the list holds the first and the third with order_index 0 and 2
C22_Witness ==
    /\ Extracted /\ Len(page.exp_items) = 3
    /\ ~Carries(page.exp_items[2]) /\ ~page.exp_items[2].raises
    /\ Len(Record.experience) = 2
    /\ Record.experience[1].order_index = 0
    /\ Record.experience[2].order_index = 2

\* ---- properties of the repositories and of run_scraper ----
UpsertStep == last_op'.op = "upsert" /\ last_op' # last_op

\* the step is the second of two calls with the same linkedin_id and the same
\* dict, the first having returned
SecondUpsert ==
    /\ UpsertStep /\ last_op.op = "upsert" /\ ~last_op.raised
    /\ last_op'.linkedin_id = last_op.linkedin_id
    /\ last_op'.given = last_op.data

WithLinkedinId(t, l) == {i \in 1..Len(t) : t[i].linkedin_id = l}

\* C23: upsert_from_linkedin creates a record only when none with that
\* linkedin_id exists; the second of two calls with the same linkedin_id and
\* data creates no record and leaves exactly one record with that linkedin_id,
\* carrying the given field values.
C23_UpsertIdempotent ==
    [][/\ (UpsertStep /\ last_op'.created)
             => WithLinkedinId(alumni, last_op'.linkedin_id) = {}
       /\ SecondUpsert =>
             /\ ~last_op'.created
             /\ Len(alumni') = Len(alumni)
             /\ Cardinality(WithLinkedinId(alumni', last_op'.linkedin_id)) = 1
             /\ \A i \in WithLinkedinId(alumni', last_op'.linkedin_id) :
                   alumni'[i].current_company = last_op'.given.current_company]_vars

BulkStep == last_op'.op = "bulk_create" /\ last_op.op = "none"

RowsFor(t, a) == SelectSeq(t, LAMBDA row : row.alumni_id = a)

\* C24: after bulk_create(alumni_id, jobs) the job history of that alumni is
\* exactly the given jobs, the k-th with order_index k (from 0), whatever
\* history it had before; get_by_alumni_id returns them in the given order;
\* the job history of every other alumni is unchanged.
C24_BulkCreateReplaces ==
    [][BulkStep =>
          LET a    == last_op'.alumni_id
              jobs == last_op'.jobs
          IN /\ Cardinality(HistoryOf(job_history', a)) = Len(jobs)
             /\ GetByAlumniId(job_history', a) # {}
             /\ \A got \in GetByAlumniId(job_history', a) :
                   /\ Len(got) = Len(jobs)
                   /\ \A k \in 1..Len(jobs) :
                         /\ got[k].company_name = jobs[k].company_name
                         /\ got[k].order_index = k - 1
                         /\ got[k].alumni_id = a
             /\ \A b \in 1..Len(alumni) :
                   b # a => RowsFor(job_history', b) = RowsFor(job_history, b)]_vars

\* bulk_create has replaced the history of one of two alumni by two jobs, the
\* first given with an order_index of the caller's, while the other alumni
\* keeps a history of its own
C24_Witness ==
    /\ last_op.op = "bulk_create" /\ Len(last_op.jobs) = 2
    /\ "order_index" \in DOMAIN last_op.jobs[1]
    /\ last_op.jobs[1].order_index = MaxJobs
    /\ last_op.jobs[1].company_name # last_op.jobs[2].company_name
    /\ Len(alumni) = 2
    /\ \E b \in 1..2 : b # last_op.alumni_id /\ HistoryOf(job_history, b) # {}

\* C25: with dry_run = true no step of run_scraper changes a table: no alumni
\* record is updated and no scrape log entry is created, for successful and
\* for failed results alike.
C25_DryRunWritesNothing ==
    [][(last_op'.op = "run_scraper" /\ dry_run') =>
          /\ alumni' = alumni
          /\ scrape_logs' = scrape_logs
          /\ job_history' = job_history]_vars

\* a dry run has gone through a successful result of an alumni in the store
\* and a failed result
C25_Witness ==
    /\ last_op.op = "run_scraper" /\ dry_run
    /\ processed = 2 /\ Len(scrape_results) = 2
    /\ scrape_results[1].success
    /\ scrape_results[1].linkedin_id # None
    /\ GetByLinkedinId(alumni, scrape_results[1].linkedin_id) # None
    /\ ~scrape_results[2].success

\* C26: get_alumni_needing_scrape(days_since_last_scrape = N) returns exactly
\* the alumni that have a linkedin_id and were never scraped or were last
\* scraped more than N days before now.
C26_NeedingScrapeOlderThanN ==
    last_op.op = "needing" =>
        last_op.returned =
            {i \in 1..Len(alumni) :
                /\ alumni[i].linkedin_id # None
                /\ \/ alumni[i].last_scraped_at = Never
                   \/ utcnow - alumni[i].last_scraped_at > last_op.days}

\* ---- properties of the coordinator over several calls ----
\* C27: in every state every account's counter is between 0 and the cap, and
\* no scrape is issued with an account whose counter is at the cap.
C27_CounterWithinCap ==
    /\ \A a \in Accounts :
          /\ Counter(account_usage, a) >= 0
          /\ Counter(account_usage, a) <= max_profiles_per_account
    /\ (pc = "scrape" /\ current_account # None)
          => Counter(account_usage, current_account) < max_profiles_per_account

\* in a second call an account that scraped in the first has reached a cap
\* of two
C27_Witness ==
    /\ calls = 2 /\ pc = "pace" /\ Len(results) = 1
    /\ max_profiles_per_account = 2
    /\ Counter(account_usage, current_account) = 2
    /\ drivers[current_scraper].call = 1

\* a stop of driver d
StopStep(d) == d <= Len(drivers) /\ drivers'[d].stops > drivers[d].stops

\* C29: a scrape is issued only on a driver that holds an authenticated
\* session of current_account and has not been stopped, and no driver is
\* stopped a second time, over any sequence of calls.
C29_ScrapeOnLiveDriverOnly ==
    [][/\ ScrapeStep =>
             /\ current_scraper # None /\ current_account # None
             /\ Live(current_scraper)
             /\ drivers[current_scraper].account = current_account
       /\ \A d \in 1..Len(drivers) : StopStep(d) => drivers[d].stops = 0]_vars

RetryStep == pc = "retry" /\ pc' # pc

SomeAvailable(au) == \E a \in Accounts : au[a].is_available

\* C30: with a cap of at least one, the retry after the cooldown wait returns
\* an account whenever some account is still available, so a call aborts only
\* when every account has been marked unavailable.
C30_RetryFindsAvailableAccount ==
    [][max_profiles_per_account >= 1 =>
          /\ (RetryStep /\ SomeAvailable(account_usage)) => account' # None
          /\ Aborted' => ~SomeAvailable(account_usage')]_vars

\* after a wait of a positive cooldown the retry returned the account that had
\* scraped the previous target and was at its cap
C30_Witness ==
    /\ pc = "init" /\ LastEvent.op = "retry"
    /\ cooldown_minutes > 0 /\ max_profiles_per_account >= 1
    /\ results # <<>> /\ LastResult.account = account

\* the cooldown waits made at input position k in the current call
WaitsAt(k) == {j \in 1..Len(events) : Ops(j) = "wait" /\ events[j].target = k}

\* C28: given that every driver call and every wait returns, a call that has
\* been made returns, whatever the targets, the accounts and the outcomes of
\* authentications and scrapes; it makes at most one cooldown wait per target.
C28_CallReturns ==
    /\ [](\A k \in 1..profile_urls : Cardinality(WaitsAt(k)) <= 1)
    /\ (pc # "idle") ~> (pc = "idle")

\* a call has returned one result per target after a cooldown wait
C28_Witness ==
    /\ Returned /\ ~Aborted
    /\ profile_urls >= 2 /\ Len(results) = profile_urls
    /\ \E k \in 1..profile_urls : WaitsAt(k) # {}

====
